---- MODULE Spec2Model ----
(***************************************************************************)
(* The container convergence engine of lxdock (src/lxdock/container.py)    *)
(* and of its predecessor nomad (src/nomad/container.py).                  *)
(*                                                                         *)
(* One command (up, halt, destroy, provision, shell) is one action.  A     *)
(* command works on a machine record m: the remote container (status,      *)
(* config, devices), the host (the resolution file, the ACLs), the calls   *)
(* the command has issued so far (log), its return value (ret) and the     *)
(* exception it is unwinding with (exc).  The daemon, the network and the  *)
(* provisioners answer as the world record w says.                         *)
(***************************************************************************)
EXTENDS Integers, Sequences, FiniteSets, TLC

VARIABLES
    variant,    \* "lxdock" or "nomad": which engine runs the commands
    options,    \* the declarative options of the container (the project file)
    status,     \* remote lifecycle status: "Absent", "Stopped" or "Running"
    config,     \* remote key/value configuration store
    devices,    \* remote device map
    etchosts,   \* host resolution file: a set of <<hostname, ip>> bindings
    acl,        \* host paths on which the current user was granted ACL access
    last,       \* the last command: its name, mode, options, calls, exception
                \* and the state it started in
    identity    \* the project name and the folder id the Container was built
                \* with, and its cached _lxd_name ("None" until first read)

vars == <<variant, options, status, config, devices, etchosts, acl, last, identity>>

----------------------------------------------------------------------------
(* Bounds of the model. *)

\* longest desired share list
MaxShares == 2
\* longest list of provisioning steps
MaxSteps == 2
\* how far below the name budget the long project names start
MaxPad == 5

(* Program constants. *)

\* the home directory of the project (Container.homedir)
HomeDir == "/h"

\* _wait_for_ip(self, seconds=10)
WaitSeconds == 10
\* self._container.stop(timeout=30, force=False, wait=True)
StopTimeout == 30
\* lxd_name_prefix[:63 - len(project_id)]
NameBudget == 63

----------------------------------------------------------------------------
(* Python dictionaries are functions; these are dict.get, item assignment  *)
(* and item deletion.                                                      *)

EmptyMap == [k \in {} |-> ""]

Get(d, k, default) == IF k \in DOMAIN d THEN d[k] ELSE default

Put(d, k, v) == [x \in (DOMAIN d) \cup {k} |-> IF x = k THEN v ELSE d[x]]

Del(d, ks) == [x \in (DOMAIN d) \ ks |-> d[x]]

\* str.startswith
startswith(s, p) == Len(s) >= Len(p) /\ SubSeq(s, 1, Len(p)) = p

\* os.path.join(a, b): an absolute b replaces a
path_join(a, b) == IF startswith(b, "/") THEN b ELSE a \o "/" \o b

----------------------------------------------------------------------------
(* The machine record a command works on. *)

Call(m, c) == [m EXCEPT !.log = Append(@, c)]

Raise(m, e) == [m EXCEPT !.exc = e]

Return(m, v) == [m EXCEPT !.ret = v]

Raised(m) == m.exc # "none"

----------------------------------------------------------------------------
(* Container properties. *)

\* the product segment of the private configuration keys and device names
Product(m) == m.variant

ProvisionedKey(m) == "user." \o Product(m) \o ".provisioned"

is_privileged(m) == Get(m.config, "security.privileged", "None") = "true"

is_provisioned(m) == Get(m.config, ProvisionedKey(m), "None") = "true"

is_running(m) == m.status = "Running"

is_stopped(m) == m.status = "Stopped"

\* client.containers.get(lxd_name) does not raise NotFound
exists(m) == m.status # "Absent"

\* the property that never sees the flag
_has_static_ip_unset(m) == FALSE

_has_static_ip(m) == Get(m.config, "user.nomad.static_ip", "None") = "true"

----------------------------------------------------------------------------
(* The name of the container in the scope of LXD. *)

\* the Python slice s[:n]
slice_to(s, n) ==
    IF n >= 0 THEN SubSeq(s, 1, IF n < Len(s) THEN n ELSE Len(s))
    ELSE SubSeq(s, 1, IF Len(s) + n > 0 THEN Len(s) + n ELSE 0)

\* the name cut to the budget as a whole, the identifier included
lxd_name_cut_whole(project_name, name, project_id) ==
    slice_to(project_name \o "-" \o name \o "-" \o project_id, NameBudget)

\* '{prefix}-{id}' with the prefix '{project_name}-{name}' cut to leave room
\* for the folder id
lxd_name(project_name, name, project_id) ==
    LET lxd_name_prefix == project_name \o "-" \o name
    IN  slice_to(lxd_name_prefix, NameBudget - Len(project_id)) \o "-" \o project_id

\* the lxd_name property: computed on the first read, cached in _lxd_name
read_lxd_name(id, o) ==
    IF id.lxd_name = "None"
    THEN [id EXCEPT !.lxd_name = lxd_name(id.project_name, o.name, id.project_id)]
    ELSE id

----------------------------------------------------------------------------
(* _get_container: get the remote container, or create it.                 *)

\* lxc_config.copy() updated with the lxdock defaults
lxdock_create_config(o) ==
    LET lxc_config == Get(o, "lxc_config", EmptyMap)
        privileged == Get(o, "privileged", FALSE)
        defaults == [k \in {"security.privileged", "user.lxdock.made", "user.lxdock.homedir"} |->
                        CASE k = "security.privileged" -> (IF privileged THEN "true" ELSE "false")
                          [] k = "user.lxdock.made" -> "1"
                          [] OTHER -> HomeDir]
    IN  [k \in (DOMAIN lxc_config) \cup (DOMAIN defaults) |->
            IF k \in DOMAIN defaults THEN defaults[k] ELSE lxc_config[k]]

nomad_create_config(o) ==
    LET privileged == Get(o, "privileged", FALSE)
    IN  [k \in {"security.privileged", "user.nomad.made", "user.nomad.homedir"} |->
            CASE k = "security.privileged" -> (IF privileged THEN "true" ELSE "false")
              [] k = "user.nomad.made" -> "1"
              [] OTHER -> HomeDir]

_get_container(m, o, w, create) ==
    IF exists(m) THEN m
    ELSE IF ~create THEN m
    ELSE LET cfg == IF m.variant = "lxdock" THEN lxdock_create_config(o)
                    ELSE nomad_create_config(o)
             c == Call(m, <<"containers.create", cfg>>)
         IN  IF w.create_ok
             THEN [c EXCEPT !.status = "Stopped", !.config = cfg, !.devices = EmptyMap]
             ELSE Raise(Call(c, <<"logger.error", "Can't create container">>),
                        "ContainerOperationFailed")

\* the _container property: the first access gets or creates the container
_container(m, o, w) == _get_container(m, o, w, TRUE)

----------------------------------------------------------------------------
(* The host resolution file (EtcHosts of the network module).              *)

ensure_binding_absent(e, hostname) == {b \in e : b[1] # hostname}

ensure_binding_present(e, hostname, ip) ==
    ensure_binding_absent(e, hostname) \cup {<<hostname, ip>>}

RECURSIVE BindAll(_, _, _)
BindAll(e, hostnames, ip) ==
    IF hostnames = <<>> THEN e
    ELSE BindAll(ensure_binding_present(e, Head(hostnames), ip), Tail(hostnames), ip)

RECURSIVE UnbindAll(_, _)
UnbindAll(e, hostnames) ==
    IF hostnames = <<>> THEN e
    ELSE UnbindAll(ensure_binding_absent(e, Head(hostnames)), Tail(hostnames))

_setup_hostnames(m, o, ip) ==
    LET hostnames == Get(o, "hostnames", <<>>)
        e == BindAll(m.etchosts, hostnames, ip)
    IN  IF hostnames = <<>> THEN m
        ELSE IF e # m.etchosts    \* etchosts.changed
             THEN Call([m EXCEPT !.etchosts = e], <<"etchosts.save", e>>)
             ELSE m

\* a halt that leaves the resolution file alone
_unsetup_hostnames_skipped(m, o) == m

_unsetup_hostnames(m, o) ==
    LET hostnames == Get(o, "hostnames", <<>>)
        e == UnbindAll(m.etchosts, hostnames)
    IN  IF hostnames = <<>> THEN m
        ELSE IF e # m.etchosts    \* etchosts.changed
             THEN Call([m EXCEPT !.etchosts = e], <<"etchosts.save", e>>)
             ELSE m

----------------------------------------------------------------------------
(* halt and destroy. *)

\* halt without the forced stop of the except clause
halt_without_fallback(m, o, w) ==
    LET c == _container(m, o, w)
    IN  IF Raised(c) THEN c
        ELSE IF is_stopped(c) THEN c
        ELSE LET u == _unsetup_hostnames(c, o)
                 g == Call(u, <<"stop", [timeout |-> StopTimeout, force |-> FALSE]>>)
             IN  IF ~w.stop_raises THEN [g EXCEPT !.status = "Stopped"]
                 ELSE Raise(g, "LXDAPIException")

halt(m, o, w) ==
    LET c == _container(m, o, w)    \* self.is_stopped reads self._container
    IN  IF Raised(c) THEN c
        ELSE IF is_stopped(c) THEN c
        ELSE LET u == _unsetup_hostnames(c, o)
                 g == Call(u, <<"stop", [timeout |-> StopTimeout, force |-> FALSE]>>)
             IN  IF ~w.stop_raises THEN [g EXCEPT !.status = "Stopped"]
                 ELSE LET f == Call(Call(g, <<"logger.warn", "Can't stop the container">>),
                                    <<"stop", [timeout |-> 0, force |-> TRUE]>>)
                      IN  IF ~w.force_raises THEN [f EXCEPT !.status = "Stopped"]
                          ELSE Raise(f, "LXDAPIException")

\* destroy that deletes without halting first
destroy_without_halt(m, o, w) ==
    LET container == _get_container(m, o, w, FALSE)
    IN  IF ~exists(container) THEN container
        ELSE [Call(container, <<"delete", "">>) EXCEPT
                 !.status = "Absent", !.config = EmptyMap, !.devices = EmptyMap]

\* destroy looking the container up through the creating _container property
destroy_through_property(m, o, w) ==
    LET container == _container(m, o, w)
    IN  IF Raised(container) \/ ~exists(container) THEN container
        ELSE LET h == halt(container, o, w)
             IN  IF Raised(h) THEN h
                 ELSE [Call(h, <<"delete", "">>) EXCEPT
                          !.status = "Absent", !.config = EmptyMap, !.devices = EmptyMap]

destroy(m, o, w) ==
    LET container == _get_container(m, o, w, FALSE)
    IN  IF ~exists(container) THEN container
        ELSE LET h == halt(container, o, w)
             IN  IF Raised(h) THEN h
                 ELSE [Call(h, <<"delete", "">>) EXCEPT
                          !.status = "Absent", !.config = EmptyMap, !.devices = EmptyMap]

----------------------------------------------------------------------------
(* Environment overrides and guest users (lxdock only). *)

\* str(value) of a declared value
str(v) == ToString(v)

\* the step that leaves the remote configuration alone
_setup_env_skipped(m, o) == m

_setup_env(m, o) ==
    LET env_override == Get(o, "environment", EmptyMap)
        keys == {"environment." \o k : k \in DOMAIN env_override}
        cfg == [x \in (DOMAIN m.config) \cup keys |->
                   IF x \in keys
                   THEN str(env_override[CHOOSE k \in DOMAIN env_override :
                                             "environment." \o k = x])
                   ELSE m.config[x]]
    IN  IF DOMAIN env_override = {} THEN m
        ELSE Call([m EXCEPT !.config = cfg], <<"save", "config">>)

RECURSIVE CreateUsers(_, _)
CreateUsers(m, users) ==
    IF users = <<>> THEN m
    ELSE CreateUsers(Call(m, <<"guest.create_user", Head(users).name>>), Tail(users))

_setup_users(m, o) == CreateUsers(m, Get(o, "users", <<>>))

----------------------------------------------------------------------------
(* Share reconciliation. *)

\* 'lxdockshare%s' % i
lxdock_share_key(i) == "lxdockshare" \o ToString(i)

\* 'nomadshare%s' % i
nomad_share_key(i) == "nomadshare" \o ToString(i)

RECURSIVE GrantMappedUsers(_, _, _)
GrantMappedUsers(m, source, users) ==
    IF users = <<>> THEN m
    ELSE GrantMappedUsers(
             Call(m, <<"host.give_mapped_user_access_to_share",
                       [source |-> source,
                        userpath |-> Get(Head(users), "home", "/home/" \o Head(users).name)]>>),
             source, Tail(users))

\* the host-side ACL grants of one share source
lxdock_grant_acl(m, o, source) ==
    LET g == Call([m EXCEPT !.acl = @ \cup {source}],
                  <<"host.give_current_user_access_to_share", source>>)
    IN  IF ~is_privileged(m)
        THEN GrantMappedUsers(
                 Call(g, <<"host.give_mapped_user_access_to_share",
                           [source |-> source, userpath |-> "None"]>>),
                 source, Get(o, "users", <<>>))
        ELSE g

\* whether one desired share gets its host-side ACL set
lxdock_needs_acl(share, source, existing_sources) ==
    Get(share, "set_host_acl", TRUE) /\ source \notin existing_sources

\* the body of: for i, share in enumerate(shares, start=1)
RECURSIVE lxdock_shares_loop(_, _, _, _, _)
lxdock_shares_loop(m, o, shares, i, existing_sources) ==
    IF i > Len(shares) THEN m
    ELSE LET share == shares[i]
             source == path_join(HomeDir, share.source)
             g == IF lxdock_needs_acl(share, source, existing_sources)
                  THEN lxdock_grant_acl(m, o, source)
                  ELSE m
             shareconf == [type |-> "disk", source |-> source, path |-> share.dest]
         IN  lxdock_shares_loop([g EXCEPT !.devices = Put(@, lxdock_share_key(i), shareconf)],
                                o, shares, i + 1, existing_sources)

\* the reconciliation that removes every installed device
lxdock_setup_shares_clearing_all(m, o) ==
    IF "shares" \notin DOMAIN o THEN m
    ELSE LET existing_shares == {k \in DOMAIN m.devices : startswith(k, "lxdockshare")}
             existing_sources == {m.devices[k].source : k \in existing_shares}
             cleared == [m EXCEPT !.devices = EmptyMap]
             done == lxdock_shares_loop(cleared, o, Get(o, "shares", <<>>), 1,
                                        existing_sources)
         IN  Call(done, <<"save", "devices">>)

\* the reconciliation without the removal of the installed shares
lxdock_setup_shares_keeping(m, o) ==
    IF "shares" \notin DOMAIN o THEN m
    ELSE LET existing_shares == {k \in DOMAIN m.devices : startswith(k, "lxdockshare")}
             existing_sources == {m.devices[k].source : k \in existing_shares}
             done == lxdock_shares_loop(m, o, Get(o, "shares", <<>>), 1, existing_sources)
         IN  Call(done, <<"save", "devices">>)

lxdock_setup_shares(m, o) ==
    IF "shares" \notin DOMAIN o THEN m
    ELSE LET existing_shares == {k \in DOMAIN m.devices : startswith(k, "lxdockshare")}
             existing_sources == {m.devices[k].source : k \in existing_shares}
             cleared == [m EXCEPT !.devices = Del(@, existing_shares)]
             done == lxdock_shares_loop(cleared, o, Get(o, "shares", <<>>), 1,
                                        existing_sources)
         IN  Call(done, <<"save", "devices">>)

\* setfacl for the current user and, in a safe container, the mapped root
nomad_grant_acl(m, source) ==
    LET g == Call([m EXCEPT !.acl = @ \cup {source}],
                  <<"setfacl.current_user", source>>)
    IN  IF ~is_privileged(m) THEN Call(g, <<"setfacl.mapped_root", source>>) ELSE g

nomad_needs_acl(source, existing_sources) == source \notin existing_sources

RECURSIVE nomad_shares_loop(_, _, _, _)
nomad_shares_loop(m, shares, i, existing_sources) ==
    IF i > Len(shares) THEN m
    ELSE LET share == shares[i]
             source == path_join(HomeDir, share.source)
             g == IF nomad_needs_acl(source, existing_sources)
                  THEN nomad_grant_acl(m, source)
                  ELSE m
             shareconf == [type |-> "disk", source |-> source, path |-> share.dest]
         IN  nomad_shares_loop([g EXCEPT !.devices = Put(@, nomad_share_key(i), shareconf)],
                               shares, i + 1, existing_sources)

nomad_setup_shares(m, o) ==
    LET existing_shares == {k \in DOMAIN m.devices : startswith(k, "nomadshare")}
        existing_sources == {m.devices[k].source : k \in existing_shares}
        cleared == [m EXCEPT !.devices = Del(@, existing_shares)]
        done == nomad_shares_loop(cleared, Get(o, "shares", <<>>), 1, existing_sources)
    IN  Call(done, <<"save", "devices">>)

----------------------------------------------------------------------------
(* IP acquisition. *)

\* the daemon call container.start(wait=True)
start(m, ok) == [Call(m, <<"start", "">>) EXCEPT !.status = IF ok THEN "Running" ELSE @]

\* get_ip / get_ipv4_ip of the network module, query number t of a window in
\* which the address appears at query number at
get_ip(m, at, ip, t) == IF is_running(m) /\ at <= t THEN ip ELSE ""

RECURSIVE wait_loop(_, _, _, _)
wait_loop(m, at, ip, i) ==
    IF i > WaitSeconds THEN Return(m, "")
    ELSE LET a == get_ip(m, at, ip, i)
             q == Call(m, <<"get_ip", a>>)
         IN  IF a # "" THEN Return(q, a) ELSE wait_loop(q, at, ip, i + 1)

\* the loop with one poll more than the seconds allow
RECURSIVE wait_loop_longer(_, _, _, _)
wait_loop_longer(m, at, ip, i) ==
    IF i > WaitSeconds + 1 THEN Return(m, "")
    ELSE LET a == get_ip(m, at, ip, i)
             q == Call(m, <<"get_ip", a>>)
         IN  IF a # "" THEN Return(q, a) ELSE wait_loop_longer(q, at, ip, i + 1)

_wait_for_ip_longer(m, at, ip) == wait_loop_longer(m, at, ip, 1)

_wait_for_ip(m, at, ip) == wait_loop(m, at, ip, 1)

_wait_for_ipv4_ip(m, at, ip) == wait_loop(m, at, ip, 1)

lxdock_setup_ip(m, w) ==
    LET a0 == get_ip(m, w.ip_at, w.ip, 0)
        q0 == Return(Call(m, <<"get_ip", a0>>), a0)
        r1 == IF q0.ret = "" THEN _wait_for_ip(q0, w.ip_at, w.ip) ELSE q0
    IN  IF r1.ret = "" THEN Call(r1, <<"logger.warn", "STILL no IP!">>) ELSE r1

_assign_free_static_ip(m) ==
    LET f == Call(m, <<"find_free_ip", "">>)
        g == Call(f, <<"set_static_ip_on_debian", "">>)
    IN  Call([g EXCEPT !.config = Put(@, "user.nomad.static_ip", "true")],
             <<"save", "config">>)

\* the acquisition that gives up after the first window
nomad_setup_ip_without_fallback(m, w) == lxdock_setup_ip(m, w)

nomad_setup_ip(m, w) ==
    LET a0 == get_ip(m, w.ip_at, w.ip, 0)
        q0 == Return(Call(m, <<"get_ip", a0>>), a0)
        r1 == IF q0.ret = "" THEN _wait_for_ipv4_ip(q0, w.ip_at, w.ip) ELSE q0
        r2 == IF r1.ret = ""
              THEN LET st == [Call(r1, <<"stop", [force |-> FALSE]>>) EXCEPT
                                 !.status = "Stopped"]
                       as == _assign_free_static_ip(st)
                       rs == start(as, w.restart_ok)
                   IN  _wait_for_ipv4_ip(rs, w.ip_at2, w.ip)
              ELSE r1
    IN  IF r2.ret = "" THEN Call(r2, <<"logger.warn", "STILL no IP!">>) ELSE r2

----------------------------------------------------------------------------
(* Provisioning. *)

\* the registry Provisioner.provisioners
Provisioners == {"ansible", "puppet", "shell"}

\* str.lower on the declared provisioner types
lower(t) ==
    CASE t = "Shell" -> "shell"
      [] t = "Ansible" -> "ansible"
      [] OTHER -> t

_perform_barebones_setup(m, w) ==
    LET k == Call(m, <<"host.get_ssh_pubkey", "">>)
    IN  IF w.ssh_pubkey
        THEN Call(k, <<"guest.add_ssh_pubkey_to_root_authorized_keys", "">>)
        ELSE Call(k, <<"logger.warning", "SSH pubkey was not found">>)

\* a provisioner for every declared step, whatever its type
instantiate_all(steps) == [i \in 1..Len(steps) |-> lower(steps[i].type)]

\* the provisioners in the reverse of the declared order
instantiate_reversed(steps) ==
    LET known == SelectSeq([i \in 1..Len(steps) |-> lower(steps[i].type)],
                           LAMBDA t : t \in Provisioners)
    IN  [i \in 1..Len(known) |-> known[Len(known) + 1 - i]]

\* the provisioners instantiated from the declared steps
instantiate(steps) ==
    SelectSeq([i \in 1..Len(steps) |-> lower(steps[i].type)],
              LAMBDA t : t \in Provisioners)

\* one hook (kind) of each provisioner in order; the hook call number
\* w.fault of the command raises
RECURSIVE run_hooks(_, _, _, _, _)
run_hooks(m, w, kind, provisioners, done) ==
    IF provisioners = <<>> THEN m
    ELSE LET c == Call(m, <<kind, Head(provisioners)>>)
         IN  IF w.fault = done + 1 THEN Raise(c, "ProvisionFailed")
             ELSE run_hooks(c, w, kind, Tail(provisioners), done + 1)

lxdock_provision_body(m, o, w) ==
    LET e == _setup_env(m, o)
        barebone == ~is_provisioned(e)
        provisioning_steps == Get(o, "provisioning", <<>>)
        b == IF barebone THEN _perform_barebones_setup(e, w) ELSE e
        provisioners == instantiate(provisioning_steps)
        s == IF barebone THEN run_hooks(b, w, "provisioner.setup", provisioners, 0) ELSE b
        p == IF Raised(s) THEN s
             ELSE run_hooks(s, w, "provisioner.provision", provisioners,
                            IF barebone THEN Len(provisioners) ELSE 0)
    IN  IF Raised(p) THEN p
        ELSE Call([p EXCEPT !.config = Put(@, "user.lxdock.provisioned", "true")],
                  <<"save", "config">>)

\* the decorator without its is_running test
must_be_created(m) ==
    IF ~exists(m)
    THEN Return(Call(m, <<"logger.error", "The container is not created.">>), "rejected")
    ELSE Return(m, "admitted")

\* the decorator of provision and shell: ret says whether the method is called
must_be_created_and_running(m) ==
    IF ~exists(m)
    THEN Return(Call(m, <<"logger.error", "The container is not created.">>), "rejected")
    ELSE IF ~is_running(m)
    THEN Return(Call(m, <<"logger.error", "The container is not running.">>), "rejected")
    ELSE Return(m, "admitted")

lxdock_provision(m, o, w) ==
    LET g == must_be_created_and_running(m)
    IN  IF g.ret = "admitted" THEN lxdock_provision_body(g, o, w) ELSE g

\* nomad's decorator: is_running reads self._container
must_be_running(m, o, w) ==
    LET c == _container(m, o, w)
    IN  IF Raised(c) THEN c
        ELSE IF ~is_running(c)
        THEN Return(Call(c, <<"logger.error", "The container is not running.">>), "rejected")
        ELSE Return(c, "admitted")

nomad_provision_body(m, o, w, barebone_arg) ==
    LET barebone == IF barebone_arg = "None" THEN ~is_provisioned(m) ELSE barebone_arg = "True"
        b == IF barebone THEN Call(m, <<"prepare_debian", "">>) ELSE m
        items == Get(o, "provisioning", <<>>)
        p == run_hooks(b, w, "provision_with_ansible",
                       [i \in 1..Len(items) |-> items[i].type], 0)
    IN  IF Raised(p) THEN p
        ELSE Call([p EXCEPT !.config = Put(@, "user.nomad.provisioned", "true")],
                  <<"save", "config">>)

nomad_provision(m, o, w, barebone_arg) ==
    LET g == must_be_running(m, o, w)
    IN  IF ~Raised(g) /\ g.ret = "admitted" THEN nomad_provision_body(g, o, w, barebone_arg)
        ELSE g

----------------------------------------------------------------------------
(* shell. *)

lxdock_shell_body(m, o, username, cmd_args) ==
    LET e == _setup_env(m, o)
        shellcfg == Get(o, "shell", EmptyMap)
        shelluser == IF username # "None" THEN username ELSE Get(shellcfg, "user", "None")
        shellhome == IF username = "None" THEN Get(shellcfg, "home", "None") ELSE "None"
        cmd == IF shelluser # "None"
               THEN [user |-> shelluser, home |-> shellhome, script |-> cmd_args # <<>>]
               ELSE [user |-> "root", home |-> "None", script |-> cmd_args # <<>>]
        g == IF cmd_args # <<>>
             THEN Call(Call(Call(e, <<"guest.run", "mkdir">>),
                            <<"files.put", cmd_args>>),
                       <<"guest.run", "chmod">>)
             ELSE e
    IN  Call(g, <<"subprocess.call", cmd>>)

lxdock_shell(m, o, w, username, cmd_args) ==
    LET g == must_be_created_and_running(m)
    IN  IF g.ret = "admitted" THEN lxdock_shell_body(g, o, username, cmd_args) ELSE g

nomad_shell_body(m, o) ==
    LET shellcfg == Get(o, "shell", EmptyMap)
        shelluser == Get(shellcfg, "user", "None")
        cmd == IF shelluser # "None"
               THEN [user |-> shelluser, home |-> Get(shellcfg, "home", "None"),
                     script |-> FALSE]
               ELSE [user |-> "bash", home |-> "None", script |-> FALSE]
    IN  Call(m, <<"subprocess.call", cmd>>)

nomad_shell(m, o, w) ==
    LET g == must_be_running(m, o, w)
    IN  IF ~Raised(g) /\ g.ret = "admitted" THEN nomad_shell_body(g, o) ELSE g

----------------------------------------------------------------------------
(* up. *)

\* the mode test without the provisioned flag
should_provision_unless_disabled(provisioning_mode, flag) ==
    provisioning_mode # "disabled"

\* the flag test without the mode
should_provision_when_unflagged(provisioning_mode, flag) == ~flag

\* the tri-state provisioning mode of lxdock's up
should_provision(provisioning_mode, flag) ==
    LET mode == IF provisioning_mode = "None" THEN "auto" ELSE provisioning_mode
    IN  /\ mode # "disabled"
        /\ \/ (~flag /\ mode = "auto")
           \/ mode = "enabled"

\* the steps of lxdock's up once an IP is resolved
lxdock_configure(m, o, w, ip, provisioning_mode) ==
    LET h == _setup_hostnames(m, o, ip)
        u == _setup_users(h, o)
        s == lxdock_setup_shares(u, o)
        e == _setup_env(s, o)
    IN  IF should_provision(provisioning_mode, is_provisioned(e))
        THEN lxdock_provision(e, o, w)
        ELSE e

lxdock_up(m, o, w, provisioning_mode) ==
    LET c == _container(m, o, w)    \* self.is_running reads self._container
    IN  IF Raised(c) THEN c
        ELSE IF is_running(c) THEN c
        ELSE LET s == start(c, w.start_ok)
             IN  IF ~is_running(s)
                 THEN Raise(Call(s, <<"logger.error", "Something went wrong">>),
                            "ContainerOperationFailed")
                 ELSE LET i == lxdock_setup_ip(s, w)
                      IN  IF i.ret = "" THEN i
                          ELSE lxdock_configure(i, o, w, i.ret, provisioning_mode)

\* the steps of nomad's up once an IP is resolved
nomad_configure(m, o, w, ip) ==
    LET h == _setup_hostnames(m, o, ip)
    IN  IF ~is_provisioned(h) THEN nomad_provision(h, o, w, "True") ELSE h

nomad_up(m, o, w) ==
    LET c == _container(m, o, w)    \* self.is_running reads self._container
    IN  IF Raised(c) THEN c
        ELSE IF is_running(c) THEN c
        ELSE LET sh == IF "shares" \in DOMAIN o THEN nomad_setup_shares(c, o) ELSE c
                 st == IF _has_static_ip(sh) THEN _assign_free_static_ip(sh) ELSE sh
                 s == start(st, w.start_ok)
             IN  IF ~is_running(s)
                 THEN Raise(Call(s, <<"logger.error", "Something went wrong">>),
                            "ContainerOperationFailed")
                 ELSE LET i == nomad_setup_ip(s, w)
                      IN  IF i.ret = "" THEN i
                          ELSE nomad_configure(i, o, w, i.ret)

----------------------------------------------------------------------------
(* The world: how the daemon, the network, the host and the provisioners   *)
(* answer during one command.                                              *)

IPs == {"10.0.3.5", "10.0.3.9"}

\* which hook call of a command raises (0: none)
Faults == 0..(2 * MaxSteps)

CalmWorld ==
    [create_ok |-> TRUE, start_ok |-> TRUE, restart_ok |-> TRUE,
     ip_at |-> 0, ip_at2 |-> 1, ip |-> "10.0.3.5",
     stop_raises |-> FALSE, force_raises |-> FALSE,
     ssh_pubkey |-> TRUE, fault |-> 0]

\* a world in which the address never appears
Unresolved(w) == w.ip_at > WaitSeconds /\ (~w.restart_ok \/ w.ip_at2 > WaitSeconds)

\* answers that no call of an up can ask for are left calm
Canonical(w) ==
    /\ ~w.create_ok => w = [CalmWorld EXCEPT !.create_ok = FALSE]
    /\ ~w.start_ok => w = [CalmWorld EXCEPT !.start_ok = FALSE]
    /\ w.ip_at <= WaitSeconds => w.restart_ok /\ w.ip_at2 = 1
    /\ ~w.restart_ok => w.ip_at2 = 1
    /\ Unresolved(w) => w.ssh_pubkey /\ w.fault = 0 /\ w.ip = "10.0.3.5"
    /\ ~w.ssh_pubkey => w.fault = 0

\* the worlds of up: the address appears at once or not within a window
UpWorlds ==
    {w \in [create_ok : BOOLEAN, start_ok : BOOLEAN, restart_ok : BOOLEAN,
            ip_at : {0, WaitSeconds + 1}, ip_at2 : {1, WaitSeconds + 1}, ip : IPs,
            stop_raises : {FALSE}, force_raises : {FALSE},
            ssh_pubkey : BOOLEAN, fault : Faults] : Canonical(w)}

\* the worlds of halt and destroy
StopWorlds ==
    {w \in [create_ok : BOOLEAN, start_ok : {TRUE}, restart_ok : {TRUE},
            ip_at : {0}, ip_at2 : {1}, ip : {"10.0.3.5"},
            stop_raises : BOOLEAN, force_raises : BOOLEAN,
            ssh_pubkey : {TRUE}, fault : {0}] :
        /\ ~w.create_ok => w = [CalmWorld EXCEPT !.create_ok = FALSE]
        /\ ~w.stop_raises => ~w.force_raises}

\* the worlds of provision
ProvisionWorlds ==
    {w \in [create_ok : BOOLEAN, start_ok : {TRUE}, restart_ok : {TRUE},
            ip_at : {0}, ip_at2 : {1}, ip : {"10.0.3.5"},
            stop_raises : {FALSE}, force_raises : {FALSE},
            ssh_pubkey : BOOLEAN, fault : Faults] :
        /\ ~w.create_ok => w = [CalmWorld EXCEPT !.create_ok = FALSE]
        /\ ~w.ssh_pubkey => w.fault = 0}

\* the worlds of shell
ShellWorlds == {CalmWorld, [CalmWorld EXCEPT !.create_ok = FALSE]}

\* worlds without faults, in which the address appears at once or never
CalmWorlds == {CalmWorld, [CalmWorld EXCEPT !.ip_at = WaitSeconds + 1, !.ip_at2 = WaitSeconds + 1]}

----------------------------------------------------------------------------
(* The declarative options. *)

ShareA == [source |-> "a", dest |-> "/x"]
ShareB == [source |-> "b", dest |-> "/y"]
\* the source of ShareA mounted a second time
ShareA2 == [source |-> "a", dest |-> "/z"]
ShareSet == {ShareA, ShareB, ShareA2}

\* the lists of at most n different elements of S
RECURSIVE ListsUpTo(_, _)
ListsUpTo(S, n) ==
    IF n = 0 THEN {<<>>}
    ELSE LET shorter == ListsUpTo(S, n - 1)
         IN  shorter \cup {Append(q, x) : q \in shorter, x \in S}

NoRepeat(q) == \A i, j \in 1..Len(q) : q[i] = q[j] => i = j

ShareLists == {q \in ListsUpTo(ShareSet, MaxShares) : NoRepeat(q)}

EnvSet == {EmptyMap, [TZ |-> 1], [TZ |-> 2, LANG |-> 1]}

ProvisioningModes == {"None", "auto", "enabled", "disabled"}

BaseOptions ==
    [name |-> "web", image |-> "ubuntu/xenial",
     hostnames |-> <<"dev.local">>,
     shares |-> <<ShareA>>,
     users |-> <<[name |-> "dev"]>>,
     environment |-> [TZ |-> 1],
     provisioning |-> <<[type |-> "shell"], [type |-> "Ansible"]>>]

\* options that declare only shares
ShareOptions(shares) == [name |-> "web", image |-> "ubuntu/xenial", shares |-> shares]

----------------------------------------------------------------------------
(* The state machine. *)

Remote ==
    [status |-> status, config |-> config, devices |-> devices,
     etchosts |-> etchosts, acl |-> acl]

Machine ==
    [variant |-> variant, status |-> status, config |-> config, devices |-> devices,
     etchosts |-> etchosts, acl |-> acl, log |-> <<>>, ret |-> "None", exc |-> "none"]

\* the project "demo" in the folder of id 66311
Identity == [project_name |-> "demo", project_id |-> "66311", lxd_name |-> "None"]

InitWith(O) ==
    /\ variant \in {"lxdock", "nomad"}
    /\ options \in O
    /\ identity = Identity
    /\ status = "Absent"
    /\ config = EmptyMap
    /\ devices = EmptyMap
    /\ etchosts = {}
    /\ acl = {}
    /\ last = [op |-> "none", mode |-> "None", options |-> options,
               log |-> <<>>, exc |-> "none",
               pre |-> [status |-> "Absent", config |-> EmptyMap, devices |-> EmptyMap,
                        etchosts |-> {}, acl |-> {}]]

Init == InitWith({BaseOptions})

\* a command returns: its effects are in place and it is the last command
Finish(op, mode, r) ==
    /\ status' = r.status
    /\ config' = r.config
    /\ devices' = r.devices
    /\ etchosts' = r.etchosts
    /\ acl' = r.acl
    /\ last' = [op |-> op, mode |-> mode, options |-> options,
                log |-> r.log, exc |-> r.exc, pre |-> Remote]
    /\ identity' = read_lxd_name(identity, options)
    /\ UNCHANGED <<variant, options>>

\* the worlds of W that differ in an answer a command can ask for: a running
\* container is not started, and only a hook of a declared step can raise
Askable(W, starts) ==
    IF starts /\ status = "Running" THEN {CalmWorld}
    ELSE {w \in W : w.fault <= 2 * Len(Get(options, "provisioning", <<>>))}

Up(W) ==
    \E w \in Askable(W, TRUE), mode \in ProvisioningModes :
        IF variant = "lxdock"
        THEN Finish("up", mode, lxdock_up(Machine, options, w, mode))
        ELSE mode = "None" /\ Finish("up", mode, nomad_up(Machine, options, w))

Halt(W) ==
    \E w \in W : Finish("halt", "None", halt(Machine, options, w))

Destroy(W) ==
    \E w \in W : Finish("destroy", "None", destroy(Machine, options, w))

Provision(W) ==
    \E w \in Askable(W, FALSE) :
        IF variant = "lxdock"
        THEN Finish("provision", "None", lxdock_provision(Machine, options, w))
        ELSE Finish("provision", "None", nomad_provision(Machine, options, w, "None"))

Shell(W) ==
    \E w \in W, username \in {"None", "dev"}, cmd_args \in {<<>>, <<"ls">>} :
        IF variant = "lxdock"
        THEN Finish("shell", "None", lxdock_shell(Machine, options, w, username, cmd_args))
        ELSE /\ username = "None" /\ cmd_args = <<>>
             /\ Finish("shell", "None", nomad_shell(Machine, options, w))

\* the project file is edited between two commands
EditEnvironment ==
    \E e \in EnvSet :
        /\ options' = Put(options, "environment", e)
        /\ options' # options
        /\ UNCHANGED <<variant, status, config, devices, etchosts, acl, last, identity>>

EditShares ==
    \E shares \in ShareLists :
        /\ options' = Put(options, "shares", shares)
        /\ options' # options
        /\ UNCHANGED <<variant, status, config, devices, etchosts, acl, last, identity>>

\* the shares key is taken out of the project file
RemoveShares ==
    /\ "shares" \in DOMAIN options
    /\ options' = Del(options, {"shares"})
    /\ UNCHANGED <<variant, status, config, devices, etchosts, acl, last, identity>>

Next ==
    \/ Up(UpWorlds)
    \/ Halt(StopWorlds)
    \/ Destroy(StopWorlds)
    \/ Provision(ProvisionWorlds)
    \/ Shell(ShellWorlds)
    \/ EditEnvironment

Spec == Init /\ [][Next]_vars

NextShares ==
    \/ Up(CalmWorlds)
    \/ Halt(CalmWorlds)
    \/ Destroy(CalmWorlds)
    \/ EditShares
    \/ RemoveShares

InitShares == InitWith({ShareOptions(<<>>)})

SpecShares == InitShares /\ [][NextShares]_vars

----------------------------------------------------------------------------
(* The IP acquisition in detail: the address appears at any query of the   *)
(* first window, at any query of the window after the static-IP fallback,  *)
(* or never, and the restart of the fallback can leave the container down. *)

IpWorlds ==
    {w \in [create_ok : {TRUE}, start_ok : {TRUE}, restart_ok : BOOLEAN,
            ip_at : 0..(WaitSeconds + 1), ip_at2 : 1..(WaitSeconds + 1), ip : IPs,
            stop_raises : {FALSE}, force_raises : {FALSE},
            ssh_pubkey : {TRUE}, fault : {0}] :
        /\ w.ip_at <= WaitSeconds => w.restart_ok /\ w.ip_at2 = 1
        /\ ~w.restart_ok => w.ip_at2 = 1}

NextIp ==
    \/ Up(IpWorlds)
    \/ Halt({CalmWorld})
    \/ Destroy({CalmWorld})

SpecIp == Init /\ [][NextIp]_vars

----------------------------------------------------------------------------
(* Projects that declare lxc_config: user-defined configuration keys that  *)
(* are given to the daemon when the container is created.                  *)

LxcConfigs ==
    {EmptyMap,
     [k \in {"limits.cpu"} |-> "2"],
     [k \in {"user.lxdock.provisioned"} |-> "true"]}

InitConfig ==
    InitWith({IF c = EmptyMap THEN BaseOptions ELSE Put(BaseOptions, "lxc_config", c) :
                 c \in LxcConfigs})

NextConfig ==
    \/ Up(UpWorlds)
    \/ Halt({CalmWorld})
    \/ Destroy({CalmWorld})
    \/ Provision(ProvisionWorlds)

SpecConfig == InitConfig /\ [][NextConfig]_vars

----------------------------------------------------------------------------
(* Projects whose provisioning steps are of known and of unknown types.    *)

\* "chef" is not in the registry
StepTypes == {"shell", "Ansible", "chef"}

StepLists == ListsUpTo({[type |-> t] : t \in StepTypes}, MaxSteps)

\* worlds in which one hook call can raise
StepWorlds == {[CalmWorld EXCEPT !.fault = f] : f \in Faults}

InitSteps == InitWith({[BaseOptions EXCEPT !.provisioning = q] : q \in StepLists})

NextSteps ==
    \/ Up(StepWorlds)
    \/ Halt({CalmWorld})
    \/ Destroy({CalmWorld})
    \/ Provision(StepWorlds)

SpecSteps == InitSteps /\ [][NextSteps]_vars

----------------------------------------------------------------------------
(* The share reconciliation pass on its own: _setup_shares is called on a  *)
(* provisioned container that also holds devices of other origin, and the  *)
(* desired list is edited between the passes.                              *)

\* ShareA without the host-side ACL
ShareAQuiet == [source |-> "a", dest |-> "/x", set_host_acl |-> FALSE]

PassShareSet == {ShareA, ShareB, ShareAQuiet}

PassShareLists == {q \in ListsUpTo(PassShareSet, MaxShares) : NoRepeat(q)}

\* devices that are not shares of the product: a network interface, and a
\* disk that mounts the source of ShareA under a name of its own
ForeignDevices ==
    {EmptyMap,
     [k \in {"eth0"} |-> [type |-> "nic"]],
     [k \in {"eth0", "assets"} |->
         IF k = "eth0" THEN [type |-> "nic"]
         ELSE [type |-> "disk", source |-> "/h/a", path |-> "/srv"]]}

\* the configuration of a container that was provisioned (and, in nomad,
\* given a static IP) by an earlier up
ProvisionedConfig(v, o) ==
    IF v = "lxdock"
    THEN Put(lxdock_create_config(o), "user.lxdock.provisioned", "true")
    ELSE Put(Put(nomad_create_config(o), "user.nomad.provisioned", "true"),
             "user.nomad.static_ip", "true")

InitPass ==
    /\ variant \in {"lxdock", "nomad"}
    /\ options = ShareOptions(<<>>)
    /\ identity = Identity
    /\ status = "Stopped"
    /\ config = ProvisionedConfig(variant, options)
    /\ devices \in ForeignDevices
    /\ etchosts = {}
    /\ acl = {}
    /\ last = [op |-> "none", mode |-> "None", options |-> options,
               log |-> <<>>, exc |-> "none",
               pre |-> [status |-> "Absent", config |-> EmptyMap, devices |-> EmptyMap,
                        etchosts |-> {}, acl |-> {}]]

\* one reconciliation pass; nomad calls _setup_shares only when the options
\* hold the shares key
SetupShares ==
    Finish("_setup_shares", "None",
           IF variant = "lxdock" THEN lxdock_setup_shares(Machine, options)
           ELSE IF "shares" \in DOMAIN options THEN nomad_setup_shares(Machine, options)
           ELSE Machine)

EditPassShares ==
    \E shares \in PassShareLists :
        /\ options' = Put(options, "shares", shares)
        /\ options' # options
        /\ UNCHANGED <<variant, status, config, devices, etchosts, acl, last, identity>>

NextPass ==
    \/ SetupShares
    \/ EditPassShares
    \/ RemoveShares

SpecPass == InitPass /\ [][NextPass]_vars

----------------------------------------------------------------------------
(* The name resolution on its own: a Container is built for a project, a   *)
(* local name and a folder, and its lxd_name property is read.             *)

RECURSIVE Repeat(_, _)
Repeat(c, n) == IF n = 0 THEN "" ELSE c \o Repeat(c, n - 1)

\* a short project name, and long ones that end in "-1" around the cut
ProjectNames ==
    {"demo"} \cup {Repeat("a", k) \o "-1" : k \in (NameBudget - 3 - MaxPad)..(NameBudget - 3)}

LocalNames == {"web", "w-1", "db-17"}

\* folderid(homedir): the digits of the folder's filesystem identity
FolderIds == {"7", "17", "117", "66311"}

InitName ==
    /\ variant \in {"lxdock", "nomad"}
    /\ options \in {[BaseOptions EXCEPT !.name = n] : n \in LocalNames}
    /\ identity \in [project_name : ProjectNames, project_id : FolderIds, lxd_name : {"None"}]
    /\ status = "Absent"
    /\ config = EmptyMap
    /\ devices = EmptyMap
    /\ etchosts = {}
    /\ acl = {}
    /\ last = [op |-> "none", mode |-> "None", options |-> options,
               log |-> <<>>, exc |-> "none",
               pre |-> [status |-> "Absent", config |-> EmptyMap, devices |-> EmptyMap,
                        etchosts |-> {}, acl |-> {}]]

\* the lxd_name property is read
ReadLxdName ==
    /\ identity' = read_lxd_name(identity, options)
    /\ UNCHANGED <<variant, options, status, config, devices, etchosts, acl, last>>

NextName == ReadLxdName

SpecName == InitName /\ [][NextName]_vars

----------------------------------------------------------------------------
(* What the claims speak of. *)

Range(s) == {s[i] : i \in 1..Len(s)}

\* the names of the calls of a log
CallsOf(log) == {log[i][1] : i \in 1..Len(log)}

\* the calls that change the daemon's state
DaemonMutations == {"containers.create", "start", "stop", "delete", "save"}

\* the calls that run something in the guest or for a provisioner
GuestCalls ==
    {"guest.create_user", "guest.run", "files.put", "subprocess.call",
     "guest.add_ssh_pubkey_to_root_authorized_keys", "prepare_debian",
     "set_static_ip_on_debian"}

HookCalls == {"provisioner.setup", "provisioner.provision", "provision_with_ansible"}

BarebonesCalls ==
    {"host.get_ssh_pubkey", "guest.add_ssh_pubkey_to_root_authorized_keys", "prepare_debian"}

\* the provisioned flag in a configuration store
Flagged(cfg) == Get(cfg, "user." \o variant \o ".provisioned", "None") = "true"

\* the last command resolved an IP
IpResolved == \E i \in 1..Len(last.log) : last.log[i][1] = "get_ip" /\ last.log[i][2] # ""

\* the last command gave up on the IP
IpUnresolved == "logger.warn" \in CallsOf(last.log) /\ ~IpResolved /\ last.op = "up"

\* the last command left the remote container and the host as they were
Untouched == Remote = last.pre

\* C1: halt invoked while the container is Absent is a no-op: no daemon
\* mutation call is issued and the container is still Absent on return.
C1_HaltAbsentNoop ==
    (last.op = "halt" /\ last.pre.status = "Absent")
        => /\ CallsOf(last.log) \cap DaemonMutations = {}
           /\ status = "Absent"

\* C2: destroy invoked while the container is Absent is a no-op: it issues
\* no call at all (no daemon mutation, no halt), touches no hostname
\* binding and leaves the container Absent.
C2_DestroyAbsentNoop ==
    (last.op = "destroy" /\ last.pre.status = "Absent")
        => /\ last.log = <<>>
           /\ last.exc = "none"
           /\ status = "Absent"
           /\ Untouched

C2_Witness ==
    /\ last.op = "destroy" /\ last.pre.status = "Absent"
    /\ status = "Absent" /\ acl # {}

\* C3: provision or shell invoked while the container is Absent returns
\* without effect in both variants: nothing is created, no guest command
\* runs, nothing is saved, nothing is raised, the container stays Absent.
C3_GuardedAbsentNoEffect ==
    (last.op \in {"provision", "shell"} /\ last.pre.status = "Absent")
        => /\ CallsOf(last.log) \subseteq {"logger.error"}
           /\ last.exc = "none"
           /\ status = "Absent"
           /\ Untouched

\* C4: provision or shell invoked while the container is Stopped runs no
\* guest command and no hook, re-applies no environment override, leaves
\* the remote configuration and the status unchanged and raises nothing.
C4_GuardedStoppedNoEffect ==
    (last.op \in {"provision", "shell"} /\ last.pre.status = "Stopped")
        => /\ CallsOf(last.log) \subseteq {"logger.error"}
           /\ last.exc = "none"
           /\ Untouched

\* a provision of a stopped, unprovisioned container whose declared
\* environment is not the one in the remote configuration
C4_Witness ==
    /\ last.op = "provision" /\ last.pre.status = "Stopped"
    /\ variant = "lxdock"
    /\ ~Flagged(config)
    /\ last.options.environment = [TZ |-> 2, LANG |-> 1]
    /\ Get(config, "environment.TZ", "None") = "1"
    /\ last.log = <<<<"logger.error", "The container is not running.">>>>

\* this step is a command (the options are those of the project file as it
\* is) and the command is an up
UpStep == options' = options /\ last' # last /\ last'.op = "up"

\* every declared hostname is bound, to one address
HostnamesInstalled ==
    \A h \in Range(Get(options, "hostnames", <<>>)) :
        \E ip \in IPs : {b \in etchosts : b[1] = h} = {<<h, ip>>}

\* the devices under the product's share prefix
ShareDevices(devs) ==
    {k \in DOMAIN devs : startswith(k, "lxdockshare") \/ startswith(k, "nomadshare")}

\* device number i is the i-th share of the list, and there is no other
Mirrors(devs, shares) ==
    /\ ShareDevices(devs) = {variant \o "share" \o ToString(i) : i \in 1..Len(shares)}
    /\ \A i \in 1..Len(shares) :
           devs[variant \o "share" \o ToString(i)] =
               [type |-> "disk", source |-> "/h/" \o shares[i].source,
                path |-> shares[i].dest]

\* the container is running and configured as the options declare
Converged ==
    /\ status = "Running"
    /\ Flagged(config)
    /\ HostnamesInstalled
    /\ Mirrors(devices, Get(options, "shares", <<>>))

\* the last command was an up that started the container and then stopped
\* short: a hook raised before the flag was saved, or no IP was resolved
PartialUp ==
    /\ last.op = "up" /\ status = "Running" /\ last.pre.status # "Running"
    /\ last.exc = "ProvisionFailed" \/ IpUnresolved

\* C5: an up that follows a partial up, in a world without the fault, brings
\* the container to Running with the provisioned flag set and the hostnames
\* and shares installed.
C5_RerunConverges ==
    [][(PartialUp /\ UpStep /\ last'.exc = "none" /\ last'.mode \in {"None", "auto"})
          => Converged']_vars

\* C6: an up in the default (auto) mode against a container whose
\* provisioned flag is set runs no barebones setup and no provisioner hook.
C6_ProvisionedNotReprovisioned ==
    (/\ last.op = "up" /\ last.mode \in {"None", "auto"}
     /\ Flagged(last.pre.config))
        => CallsOf(last.log) \cap (BarebonesCalls \cup HookCalls) = {}

\* an up in auto mode that started a stopped, provisioned container and
\* resolved its IP, so that the provisioning decision was taken
C6_Witness ==
    /\ last.op = "up" /\ last.mode = "auto" /\ variant = "lxdock"
    /\ last.pre.status = "Stopped" /\ Flagged(last.pre.config)
    /\ status = "Running" /\ IpResolved /\ last.exc = "none"

\* the remote configuration holds every declared environment override
EnvApplied ==
    \A k \in DOMAIN Get(options, "environment", EmptyMap) :
        Get(config, "environment." \o k, "None") = ToString(options.environment[k])

\* C7: an up issued right after an up that reached Running and Provisioned
\* re-applies the environment overrides: after it every key of the current
\* environment option is in the remote configuration with its current
\* value, also when the option was edited between the two calls.
C7_SecondUpReappliesEnv ==
    [][(/\ variant = "lxdock"
        /\ last.op = "up" /\ status = "Running" /\ Flagged(config)
        /\ UpStep /\ last'.exc = "none")
          => EnvApplied']_vars

\* the last command was an up that ran its share-setup step: lxdock calls
\* _setup_shares once an IP is resolved, nomad calls it, before the start,
\* when the options hold the shares key
ShareStepRan ==
    /\ last.op = "up"
    /\ IF variant = "lxdock" THEN IpResolved
       ELSE "shares" \in DOMAIN last.options /\ "start" \in CallsOf(last.log)

\* C8: reconciling with the desired list [A, B] and then with [B] leaves
\* exactly one share device, named with index 1, whose source and path are
\* those of B.
C8_SharesConverge ==
    \A a, b \in ShareSet :
        (/\ a # b
         /\ ShareStepRan
         /\ Mirrors(last.pre.devices, <<a, b>>)
         /\ "shares" \in DOMAIN last.options /\ last.options.shares = <<b>>)
            => /\ ShareDevices(devices) = {variant \o "share1"}
               /\ devices[variant \o "share1"] =
                      [type |-> "disk", source |-> "/h/" \o b.source, path |-> b.dest]

C8_Witness ==
    /\ ShareStepRan
    /\ Mirrors(last.pre.devices, <<ShareA, ShareB>>)
    /\ "shares" \in DOMAIN last.options /\ last.options.shares = <<ShareB>>
    /\ ShareDevices(devices) = {variant \o "share1"}
    /\ variant = "lxdock"

\* C9: after every up that runs its share-setup step the share devices
\* mirror the desired shares of the options the up ran with (none when no
\* shares are declared), whatever was installed before.
C9_SharesMirrorDesired ==
    ShareStepRan => Mirrors(devices, Get(last.options, "shares", <<>>))

\* the sources for which a log grants the current user access
GrantsOf(log) ==
    SelectSeq(log, LAMBDA c : c[1] \in {"host.give_current_user_access_to_share",
                                         "setfacl.current_user"})

\* C10: a reconciliation pass grants the host-side ACL of the current user
\* for no source that was installed as a share device before the pass, and
\* for no source twice.
C10_AclOncePerSource ==
    last.op = "up" =>
        LET grants == GrantsOf(last.log)
        IN  /\ \A i \in 1..Len(grants) :
                   grants[i][2] \notin
                       {last.pre.devices[k].source : k \in ShareDevices(last.pre.devices)}
            /\ \A i, j \in 1..Len(grants) : grants[i][2] = grants[j][2] => i = j

\* the calls of the last command that follow its first start call
AcquisitionLog ==
    LET first == CHOOSE i \in 1..Len(last.log) :
                     /\ last.log[i][1] = "start"
                     /\ \A j \in 1..(i - 1) : last.log[j][1] # "start"
    IN  SubSeq(last.log, first + 1, Len(last.log))

\* the last command was an up that started the container
Started == last.op = "up" /\ "start" \in CallsOf(last.log)

\* the queries of the container's address among the calls of a log
Queries(log) == SelectSeq(log, LAMBDA c : c[1] = "get_ip")

\* the calls of the static-IP fallback
FallbackCalls == {"stop", "find_free_ip", "set_static_ip_on_debian", "start"}

\* every declared hostname is bound to the address ip and to no other
BoundTo(ip) ==
    \A h \in Range(Get(last.options, "hostnames", <<>>)) :
        {b \in etchosts : b[1] = h} = {<<h, ip>>}

\* C11: when the container reports no address on the initial query and on
\* the first 9 polls and an address on the 10th poll, the acquisition
\* returns that address, after 11 queries, with no stop and no static-IP
\* assignment; without fallback (lxdock) an acquisition never queries the
\* container more than 11 times.
C11_BoundedPoll ==
    Started =>
        LET q == Queries(AcquisitionLog)
        IN  /\ (/\ Len(q) > WaitSeconds
                 /\ \A i \in 1..WaitSeconds : q[i][2] = ""
                 /\ q[WaitSeconds + 1][2] # "")
                    => /\ Len(q) = WaitSeconds + 1
                       /\ CallsOf(AcquisitionLog) \cap FallbackCalls = {}
                       /\ BoundTo(q[WaitSeconds + 1][2])
            /\ variant = "lxdock" => Len(q) <= WaitSeconds + 1

\* an up of lxdock whose eleventh query was the first to see an address
C11_Witness ==
    /\ Started /\ variant = "lxdock"
    /\ Len(Queries(AcquisitionLog)) = WaitSeconds + 1
    /\ Queries(AcquisitionLog)[WaitSeconds][2] = ""
    /\ Queries(AcquisitionLog)[WaitSeconds + 1][2] = "10.0.3.9"
    /\ BoundTo("10.0.3.9")

\* n queries that see no address
RECURSIVE EmptyQueries(_)
EmptyQueries(n) == IF n = 0 THEN <<>> ELSE <<"get_ip">> \o EmptyQueries(n - 1)

\* C12: in nomad an acquisition that never sees an address performs the
\* initial query and 10 polls, then one stop / allocate static IP / restart
\* cycle in that order, then one more window of 10 polls, and returns
\* unresolved; the cycle is not started when the first window saw an address.
C12_OneFallbackCycle ==
    (Started /\ variant = "nomad") =>
        LET a == AcquisitionLog
            q == Queries(a)
        IN  /\ ~IpResolved =>
                   [i \in 1..Len(a) |-> a[i][1]] =
                       EmptyQueries(WaitSeconds + 1)
                           \o <<"stop", "find_free_ip", "set_static_ip_on_debian",
                                "save", "start">>
                           \o EmptyQueries(WaitSeconds)
                           \o <<"logger.warn">>
            /\ (\E i \in 1..Len(q) : i <= WaitSeconds + 1 /\ q[i][2] # "")
                   => CallsOf(a) \cap FallbackCalls = {}

\* an up of nomad that went through the fallback and stayed unresolved
C12_Witness ==
    /\ Started /\ variant = "nomad" /\ ~IpResolved
    /\ "find_free_ip" \in CallsOf(AcquisitionLog)
    /\ _has_static_ip(Machine)
    /\ status = "Running"

\* C13: when the acquisition ends unresolved, up returns without raising,
\* writes no hostname binding, runs no barebones setup and no hook, does not
\* set the provisioned flag, issues no call after the acquisition gave up,
\* and the container is left running.
C13_UnresolvedLeftRunning ==
    (Started /\ IpUnresolved) =>
        /\ last.exc = "none"
        /\ etchosts = last.pre.etchosts
        /\ "etchosts.save" \notin CallsOf(last.log)
        /\ CallsOf(last.log) \cap (BarebonesCalls \cup HookCalls \cup {"prepare_debian"}) = {}
        /\ Flagged(config) => Flagged(last.pre.config)
        /\ last.log[Len(last.log)][1] = "logger.warn"
        /\ "delete" \notin CallsOf(last.log)
        /\ status = "Running"

\* the address the last command resolved
ResolvedIp == LET q == Queries(last.log) IN q[Len(q)][2]

\* the bindings of the declared hostnames
DeclaredBindings ==
    {b \in etchosts : b[1] \in Range(Get(options, "hostnames", <<>>))}

\* C14: through any sequence of commands every declared hostname has no
\* binding or exactly one, and one only while the container is running; an
\* up that resolves an address leaves every declared hostname bound to that
\* address alone, a halt of a running container leaves none bound, and no
\* other command changes the resolution file.
C14_HostnameBindings ==
    /\ [](/\ \A b, c \in DeclaredBindings : b[1] = c[1] => b = c
          /\ DeclaredBindings # {} => status = "Running")
    /\ [][/\ (last' # last /\ last'.op = "up" /\ IpResolved') => BoundTo(ResolvedIp)'
          /\ (last' # last /\ last'.op = "halt" /\ status = "Running")
                 => DeclaredBindings' = {}
          /\ etchosts' # etchosts => last'.op \in {"up", "halt", "destroy"}]_vars

\* an up that follows a completed up and a halt, and binds the new address
C14_Witness ==
    /\ last.op = "up" /\ last.pre.status = "Stopped"
    /\ Flagged(last.pre.config) /\ last.pre.etchosts = {}
    /\ etchosts = {<<"dev.local", "10.0.3.9">>}

\* the last command ran the provisioning pipeline
PipelineRan == CallsOf(last.log) \cap (BarebonesCalls \cup HookCalls) # {}

\* C15: an up of lxdock that starts the container and resolves an IP runs
\* the provisioning pipeline if and only if the mode is enabled, or the
\* mode is auto (or not given) and the provisioned flag is not set; with the
\* mode disabled it never runs.
C15_ProvisioningModes ==
    (variant = "lxdock" /\ Started /\ IpResolved) =>
        (PipelineRan <=>
            \/ last.mode = "enabled"
            \/ last.mode \in {"auto", "None"} /\ ~Flagged(last.pre.config))

\* an up in the enabled mode that provisioned a provisioned container again
C15_Witness ==
    /\ variant = "lxdock" /\ Started /\ IpResolved
    /\ last.mode = "enabled" /\ Flagged(last.pre.config)
    /\ "provisioner.provision" \in CallsOf(last.log)
    /\ "host.get_ssh_pubkey" \notin CallsOf(last.log)

\* the hook calls of the last command, in order
HooksOf(log) == SelectSeq(log, LAMBDA c : c[1] \in HookCalls)

\* the last command performed the barebones setup and completed every hook
\* of the declared steps without raising
RunCompleted ==
    LET steps == Get(last.options, "provisioning", <<>>)
        ps == instantiate(steps)
    IN  /\ last.op \in {"up", "provision"}
        /\ last.exc = "none"
        /\ IF variant = "lxdock"
           THEN /\ "host.get_ssh_pubkey" \in CallsOf(last.log)
                /\ HooksOf(last.log) =
                       [i \in 1..Len(ps) |-> <<"provisioner.setup", ps[i]>>]
                           \o [i \in 1..Len(ps) |-> <<"provisioner.provision", ps[i]>>]
           ELSE /\ "prepare_debian" \in CallsOf(last.log)
                /\ HooksOf(last.log) =
                       [i \in 1..Len(steps) |-> <<"provision_with_ansible", steps[i].type>>]

\* C16: the provisioned flag becomes true only by a provisioning run that
\* performed the barebones setup and completed every hook without raising
\* (a freshly created container is not provisioned, a run in which a hook
\* raises leaves the flag unset), and once set it stays true through every
\* command but destroy.
C16_FlagMeansProvisioned ==
    [][/\ (Flagged(config') /\ ~Flagged(config)) => RunCompleted'
       /\ (Flagged(config) /\ last'.op # "destroy") => Flagged(config')]_vars

\* C17: the resolved container name is at most 63 characters long, whatever
\* the project name, the local name and the folder id.
C17_NameFits ==
    identity.lxd_name # "None" => Len(identity.lxd_name) <= NameBudget

\* C18: two folders with different ids and the same project name and local
\* name resolve to different container names, also when the prefix is cut.
C18_NamesDiffer ==
    identity.lxd_name # "None" =>
        \A id \in FolderIds \ {identity.project_id} :
            lxd_name(identity.project_name, options.name, id) # identity.lxd_name

\* a name whose prefix was cut and a shorter folder id whose digits end it
C18_Witness ==
    /\ identity.lxd_name # "None"
    /\ Len(identity.project_name \o "-" \o options.name) >
           NameBudget - Len(identity.project_id)
    /\ identity.project_id = "117"
    /\ \E id \in FolderIds : id # identity.project_id /\
           SubSeq(identity.lxd_name, Len(identity.lxd_name) - Len(id) + 1,
                  Len(identity.lxd_name)) = id

\* the stop calls of a log, in order
StopsOf(log) == SelectSeq(log, LAMBDA c : c[1] = "stop")

\* the position of the first call named n in a log (0: none)
FirstCall(log, n) ==
    IF n \in CallsOf(log)
    THEN CHOOSE i \in 1..Len(log) :
             log[i][1] = n /\ \A j \in 1..(i - 1) : log[j][1] # n
    ELSE 0

\* C19: halt on a Running container removes the hostname bindings before
\* it issues one graceful stop (timeout 30, not forced); a forced stop is
\* issued, once and after a warning, only when the graceful stop did not
\* stop the container; when a stop succeeds the container is Stopped on
\* return; halt on a Stopped container issues no stop and removes no binding.
C19_HaltStops ==
    /\ (last.op = "halt" /\ last.pre.status = "Running") =>
           LET stops == StopsOf(last.log)
           IN  /\ Len(stops) \in {1, 2}
               /\ stops[1][2] = [timeout |-> StopTimeout, force |-> FALSE]
               /\ DeclaredBindings = {}
               /\ last.pre.etchosts # etchosts =>
                      /\ FirstCall(last.log, "etchosts.save") > 0
                      /\ FirstCall(last.log, "etchosts.save") < FirstCall(last.log, "stop")
               /\ Len(stops) = 1 => last.exc = "none" /\ status = "Stopped"
               /\ Len(stops) = 2 =>
                      /\ stops[2][2].force
                      /\ last.log[FirstCall(last.log, "stop") + 1][1] = "logger.warn"
                      /\ \/ last.exc = "none" /\ status = "Stopped"
                         \/ last.exc = "LXDAPIException" /\ status = "Running"
    /\ (last.op = "halt" /\ last.pre.status = "Stopped") =>
           last.log = <<>> /\ last.exc = "none" /\ Untouched

\* a halt whose graceful stop raised and whose forced stop stopped the
\* container, after the binding of the running container was removed
C19_Witness ==
    /\ last.op = "halt" /\ last.pre.status = "Running"
    /\ last.pre.etchosts # {} /\ etchosts = {}
    /\ Len(StopsOf(last.log)) = 2
    /\ status = "Stopped"

\* C20: destroy on an existing container halts it and only then deletes it:
\* the delete is issued once, as the last call, after the stop of a Running
\* container succeeded, and the container is Absent on return; when both
\* stops of the halt raise, no delete is issued.
C20_DestroyHaltsFirst ==
    (last.op = "destroy" /\ last.pre.status # "Absent") =>
        LET deletes == SelectSeq(last.log, LAMBDA c : c[1] = "delete")
        IN  /\ last.exc = "none" =>
                   /\ Len(deletes) = 1
                   /\ last.log[Len(last.log)][1] = "delete"
                   /\ status = "Absent"
                   /\ last.pre.status = "Running" =>
                          /\ Len(StopsOf(last.log)) \in {1, 2}
                          /\ DeclaredBindings = {}
                   /\ last.pre.status = "Stopped" => StopsOf(last.log) = <<>>
            /\ last.exc # "none" =>
                   /\ deletes = <<>>
                   /\ Len(StopsOf(last.log)) = 2
                   /\ status = "Running"

\* a destroy of a running container whose graceful stop raised
C20_Witness ==
    /\ last.op = "destroy" /\ last.pre.status = "Running"
    /\ Len(StopsOf(last.log)) = 2
    /\ last.exc = "none" /\ status = "Absent"
    /\ last.pre.etchosts # {} /\ etchosts = {}

\* the calls of the steps of up that follow the start: the acquisition, the
\* hostnames, the shares, the users, the environment and the provisioning
StepCalls ==
    {"get_ip", "find_free_ip", "set_static_ip_on_debian", "etchosts.save",
     "guest.create_user", "save",
     "host.give_current_user_access_to_share", "host.give_mapped_user_access_to_share",
     "setfacl.current_user", "setfacl.mapped_root"}
        \cup BarebonesCalls \cup HookCalls

\* the last command was an up whose start call left the container down
StartFailed == Started /\ status # "Running" /\ "stop" \notin CallsOf(last.log)

\* C21: when the daemon rejects the create, up raises
\* ContainerOperationFailed and issues no start; when the container is not
\* Running after the start call, up raises ContainerOperationFailed and
\* runs no acquisition, hostname, share, user, environment or provisioning
\* step.
C21_FailuresAbortUp ==
    last.op = "up" =>
        /\ ("containers.create" \in CallsOf(last.log) /\ status = "Absent") =>
               /\ last.exc = "ContainerOperationFailed"
               /\ "start" \notin CallsOf(last.log)
        /\ StartFailed =>
               /\ last.exc = "ContainerOperationFailed"
               /\ CallsOf(last.log) \cap StepCalls = {}

\* C22: whenever up returns without raising, the container is Running:
\* from Absent, from Stopped, from Running, and on the path where the
\* static-IP fallback stopped and restarted the container.
C22_UpLeavesRunning ==
    (last.op = "up" /\ last.exc = "none") => status = "Running"

\* the static-IP flag of the container
StaticFlag == Get(config, "user.nomad.static_ip", "None") = "true"

\* C23: in nomad the static-IP flag becomes set only by a command that
\* force-assigned a static IP, every such command leaves it set, it is not
\* cleared as long as the container is not destroyed, and an up from
\* Stopped of a container with the flag set assigns the static IP before
\* it issues the start call.
C23_StaticFlag ==
    [][variant = "nomad" =>
        /\ (StaticFlag' /\ ~StaticFlag)
               => "set_static_ip_on_debian" \in CallsOf(last'.log)
        /\ ("set_static_ip_on_debian" \in CallsOf(last'.log) /\ status' # "Absent")
               => StaticFlag'
        /\ (StaticFlag /\ last'.op # "destroy") => StaticFlag'
        /\ (StaticFlag /\ status = "Stopped" /\ UpStep
                /\ "start" \in CallsOf(last'.log))
               => /\ FirstCall(last'.log, "find_free_ip") > 0
                  /\ FirstCall(last'.log, "find_free_ip")
                         < FirstCall(last'.log, "set_static_ip_on_debian")
                  /\ FirstCall(last'.log, "set_static_ip_on_debian")
                         < FirstCall(last'.log, "start")]_vars

\* an up from Stopped of a container with the flag set, that assigned the
\* static IP and then started the container
C23_Witness ==
    /\ variant = "nomad" /\ last.op = "up" /\ last.pre.status = "Stopped"
    /\ Get(last.pre.config, "user.nomad.static_ip", "None") = "true"
    /\ FirstCall(last.log, "set_static_ip_on_debian") > 0
    /\ FirstCall(last.log, "set_static_ip_on_debian") < FirstCall(last.log, "start")
    /\ StaticFlag /\ status = "Running"

\* the remote configuration holds every environment override the last
\* command was given
EnvReapplied ==
    \A k \in DOMAIN Get(last.options, "environment", EmptyMap) :
        Get(config, "environment." \o k, "None") = ToString(last.options.environment[k])

\* the provisioners of the steps the last command was given
ProvisionersOf ==
    LET steps == Get(last.options, "provisioning", <<>>)
    IN  SelectSeq([i \in 1..Len(steps) |-> lower(steps[i].type)],
                  LAMBDA t : t \in Provisioners)

\* the calls of one hook of every provisioner, in declared order
HookRun(kind) == [i \in 1..Len(ProvisionersOf) |-> <<kind, ProvisionersOf[i]>>]

\* the last command was a provision of lxdock on a Running container
ProvisionRan == variant = "lxdock" /\ last.op = "provision" /\ last.pre.status = "Running"

\* C24: the provision command of lxdock on a Running container re-applies
\* the environment overrides and, when no hook raises, runs the provision
\* hook of every registered provisioner, whether or not the provisioned
\* flag was set; it runs the barebones setup and the setup hooks exactly
\* when the flag was not set.
C24_ProvisionOnDemand ==
    ProvisionRan =>
        /\ EnvReapplied
        /\ last.exc = "none" =>
               SelectSeq(last.log, LAMBDA c : c[1] = "provisioner.provision")
                   = HookRun("provisioner.provision")
        /\ "host.get_ssh_pubkey" \in CallsOf(last.log) <=> ~Flagged(last.pre.config)
        /\ "provisioner.setup" \in CallsOf(last.log) => ~Flagged(last.pre.config)
        /\ (last.exc = "none" /\ ~Flagged(last.pre.config)) =>
               SelectSeq(last.log, LAMBDA c : c[1] = "provisioner.setup")
                   = HookRun("provisioner.setup")

\* a provision of a provisioned container after the environment was
\* edited: the new overrides are applied and only the provision hooks run
C24_Witness ==
    /\ ProvisionRan /\ Flagged(last.pre.config) /\ last.exc = "none"
    /\ last.options.environment = [TZ |-> 2, LANG |-> 1]
    /\ Get(last.pre.config, "environment.TZ", "None") = "1"
    /\ Get(config, "environment.TZ", "None") = "2"
    /\ HooksOf(last.log) = HookRun("provisioner.provision")

\* the last command of lxdock went through a barebone provisioning run
BarebonesRun ==
    /\ variant = "lxdock" /\ last.op \in {"up", "provision"}
    /\ "host.get_ssh_pubkey" \in CallsOf(last.log)

\* the calls of a complete barebone run whose bootstrap issued the call b
BarebonesSteps(b) ==
    (IF DOMAIN Get(last.options, "environment", EmptyMap) # {}
     THEN <<<<"save", "config">>>> ELSE <<>>)
        \o <<<<"host.get_ssh_pubkey", "">>, b>>
        \o HookRun("provisioner.setup")
        \o HookRun("provisioner.provision")
        \o <<<<"save", "config">>>>

\* a log ends with the calls q
EndsWith(log, q) ==
    Len(log) >= Len(q) /\ SubSeq(log, Len(log) - Len(q) + 1, Len(log)) = q

\* C25: a barebone provisioning run of lxdock applies the environment
\* overrides, then bootstraps the guest (SSH key), then runs every setup
\* hook in declared order, then every provision hook in declared order, and
\* saves the provisioned flag after the last provision hook; no provision
\* hook runs before all setup hooks have run, and a run in which a hook
\* raises does not save the flag.
C25_BarebonesOrder ==
    BarebonesRun =>
        /\ last.exc = "none" =>
               /\ \/ EndsWith(last.log, BarebonesSteps(
                         <<"guest.add_ssh_pubkey_to_root_authorized_keys", "">>))
                  \/ EndsWith(last.log, BarebonesSteps(
                         <<"logger.warning", "SSH pubkey was not found">>))
               /\ Flagged(config)
        /\ "provisioner.provision" \in CallsOf(last.log) =>
               /\ SelectSeq(last.log, LAMBDA c : c[1] = "provisioner.setup")
                      = HookRun("provisioner.setup")
               /\ \A i, j \in 1..Len(last.log) :
                      (last.log[i][1] = "provisioner.setup"
                          /\ last.log[j][1] = "provisioner.provision") => i < j
        /\ last.exc # "none" => ~Flagged(config)

\* a provision command that went through a complete barebone run of two
\* provisioners
C25_Witness ==
    /\ BarebonesRun /\ last.op = "provision" /\ last.exc = "none"
    /\ Len(ProvisionersOf) = 2
    /\ last.log = BarebonesSteps(<<"guest.add_ssh_pubkey_to_root_authorized_keys", "">>)
    /\ Flagged(config)

\* the position of the first call of a log that is the call e (0: none)
FirstEntry(log, e) ==
    IF \E i \in 1..Len(log) : log[i] = e
    THEN CHOOSE i \in 1..Len(log) : log[i] = e /\ \A j \in 1..(i - 1) : log[j] # e
    ELSE 0

\* the position of the first call of a log whose name is in S (0: none)
FirstIn(log, S) ==
    IF CallsOf(log) \cap S # {}
    THEN CHOOSE i \in 1..Len(log) :
             log[i][1] \in S /\ \A j \in 1..(i - 1) : log[j][1] \notin S
    ELSE 0

\* step a of the last command, if it ran, ran before step b, if that ran
Before(a, b) == (a > 0 /\ b > 0) => a < b

\* C26: an up (lxdock) that reached Running with a resolved IP sets up the
\* hostnames, then the shares, then the guest users, then applies the
\* environment overrides, then runs the provisioning; in particular the
\* shares are set up before the guest users are created.
C26_StepOrder ==
    (variant = "lxdock" /\ Started /\ IpResolved) =>
        LET hostnames == FirstCall(last.log, "etchosts.save")
            shares == FirstEntry(last.log, <<"save", "devices">>)
            users == FirstCall(last.log, "guest.create_user")
            env == IF DOMAIN Get(last.options, "environment", EmptyMap) = {} THEN 0
                   ELSE FirstEntry(last.log, <<"save", "config">>)
            provisioning == FirstIn(last.log, BarebonesCalls \cup HookCalls)
        IN  /\ Before(hostnames, shares)
            /\ Before(shares, users)
            /\ Before(users, env)
            /\ Before(env, provisioning)

\* C27: a provisioning step of lxdock whose type is not in the registry is
\* skipped without failing the run: no hook is called for it, the hooks of
\* the steps of known types run in declared order, nothing is raised but by
\* a hook of a known type, and the provisioned flag is set at the end, also
\* when every declared step has an unknown type.
C27_UnknownTypesSkipped ==
    (ProvisionRan \/ (variant = "lxdock" /\ last.op = "up" /\ PipelineRan)) =>
        /\ \A i \in 1..Len(last.log) :
               last.log[i][1] \in HookCalls => last.log[i][2] \in Provisioners
        /\ last.exc \in {"none", "ProvisionFailed"}
        /\ last.exc = "ProvisionFailed" => last.log[Len(last.log)][1] \in HookCalls
        /\ ProvisionersOf = <<>> => last.exc = "none"
        /\ last.exc = "none" =>
               /\ SelectSeq(last.log, LAMBDA c : c[1] = "provisioner.provision")
                      = HookRun("provisioner.provision")
               /\ Flagged(config)

\* a barebone run of a step of unknown type and a step of known type
C27_Witness ==
    /\ ProvisionRan /\ ~Flagged(last.pre.config) /\ last.exc = "none"
    /\ last.options.provisioning = <<[type |-> "chef"], [type |-> "shell"]>>
    /\ HooksOf(last.log) = <<<<"provisioner.setup", "shell">>,
                              <<"provisioner.provision", "shell">>>>
    /\ Flagged(config)

\* a run of steps of unknown types alone, that set the flag
C27_WitnessAllUnknown ==
    /\ ProvisionRan /\ ~Flagged(last.pre.config) /\ last.exc = "none"
    /\ last.options.provisioning = <<[type |-> "chef"], [type |-> "chef"]>>
    /\ Flagged(config)

\* the last command was a reconciliation pass over a declared list
PassRan == last.op = "_setup_shares" /\ "shares" \in DOMAIN last.options

\* C28: after any sequence of reconciliation passes (lxdock) every desired
\* share of the latest pass that has set_host_acl enabled has had the
\* host-side ACL granted on its source, also a share that was first
\* installed with set_host_acl disabled.
C28_AclGrantedWhenEnabled ==
    (PassRan /\ variant = "lxdock") =>
        \A i \in 1..Len(last.options.shares) :
            Get(last.options.shares[i], "set_host_acl", TRUE)
                => path_join(HomeDir, last.options.shares[i].source) \in acl

\* the devices of a map that are outside the namespace of the product
OutsideNamespace(devs) ==
    {k \in DOMAIN devs : ~startswith(k, variant \o "share")}

\* C29: a reconciliation pass leaves every device whose name does not start
\* with the share prefix of the product present and unchanged, and changes
\* no configuration key.
C29_PassFrame ==
    last.op = "_setup_shares" =>
        /\ \A k \in OutsideNamespace(last.pre.devices) :
               k \in DOMAIN devices /\ devices[k] = last.pre.devices[k]
        /\ OutsideNamespace(devices) = OutsideNamespace(last.pre.devices)
        /\ config = last.pre.config

\* a pass of lxdock over a container with two foreign devices that replaced
\* two installed shares by one
C29_Witness ==
    /\ PassRan /\ variant = "lxdock"
    /\ OutsideNamespace(last.pre.devices) = {"eth0", "assets"}
    /\ DOMAIN last.pre.devices = {"eth0", "assets", "lxdockshare1", "lxdockshare2"}
    /\ DOMAIN devices = {"eth0", "assets", "lxdockshare1"}
    /\ Flagged(config)

====
